---- MODULE Spec2Model ----
(***************************************************************************)
(* Error-event service: request handlers (web_main), the workflow/service  *)
(* layer, and the two data-access objects with their pooled connections    *)
(* and transactional cursor scopes.                                        *)
(*                                                                         *)
(* Every DAO method runs as four steps of the calling thread:              *)
(*   acquire  _get_connection_pool() + pool.getconn()                      *)
(*   execute  cursor() and the body of the `with` block                    *)
(*   exit     the commit / except / finally part of _get_db_cursor         *)
(*   release  the finally part of _get_db_connection (pool.putconn), after *)
(*            which the method returns or raises into its caller and the   *)
(*            caller runs up to its next DAO call or to its end            *)
(* The two tables are the persistent store: they outlive the process, so   *)
(* the initial state draws their content from a few seeded databases.      *)
(***************************************************************************)
EXTENDS Integers, Sequences, FiniteSets, TLC

VARIABLES
    lob_applications,   \* table lob_applications: lob_app_id -> row (committed)
    error_events,       \* table error_events: event_id -> row (committed)
    lob_app_id_seq,     \* last value of the lob_app_id sequence
    event_id_seq,       \* last value of the event_id sequence
    now,                \* the database clock read by now()
    pool,               \* per DAO: the lazily created connection pool
    thr,                \* per worker thread: the request it runs and its locals
    ops                 \* number of requests started

vars == <<lob_applications, error_events, lob_app_id_seq, event_id_seq, now,
          pool, thr, ops>>

----------------------------------------------------------------------------
\* Bounds of the model.

\* Requests started in one behaviour.
MaxOps == 2
\* DB_POOL_MAX: connections one pool hands out at the same time.
pool_max_connections == 1

Threads == {"w1", "w2"}
Daos == {"LobApplicationDao", "ErrorEventDao"}

Lobs == {"RETAIL", "CARDS"}
Apps == {"checkout"}
Envs == {"prod"}
Keys == [lob : Lobs, application_name : Apps, environment : Envs]

\* States a caller may pass as the target of a resolution update.
TargetStates == {"RESOLVED", "PENDING_APPROVAL"}
\* The event rows of a seeded database, by their states in id order.
SeedEvents == {<<>>, <<"PENDING_APPROVAL">>, <<"PROCESSING">>}
\* Event ids a request may name: the seeded row's and one that no row has.
EventIds == {1, 2}

----------------------------------------------------------------------------
\* The pydantic model ErrorEvent: its declared fields, and those without a
\* default (a constructor call that omits one raises ValidationError; reading
\* an attribute that is not a field raises AttributeError).

ErrorEvent_fields ==
    {"correlation_id", "stack_trace", "lob", "application_name", "environment",
     "timestamp", "event_id", "lob_app_id", "event_state", "span_id",
     "stacktrace", "origin_method", "resolution", "pull_request_url",
     "confidence", "resolution_acceptance_state", "occurrence_count",
     "created_ts", "updated_ts"}

ErrorEvent_required ==
    {"correlation_id", "stack_trace", "lob", "application_name", "environment",
     "timestamp"}

\* Attributes of error_event that save_error_event reads for the INSERT.
save_error_event_params ==
    {"lob_app_id", "event_state", "correlation_id", "span_id", "stacktrace",
     "origin_method", "occurrence_count", "error_timestamp",
     "origin_line_number", "origin_class"}

\* Keyword arguments find_by_id passes to ErrorEvent(...).
find_by_id_kwargs ==
    {"event_id", "lob_app_id", "event_state", "correlation_id", "span_id",
     "stacktrace", "origin_method", "resolution", "pull_request_url",
     "confidence", "user_resolution_acceptance", "occurrence_count",
     "created_ts", "updated_ts", "error_timestamp", "user_feedback",
     "origin_line_number", "origin_class", "source_branch",
     "affected_jira_ids", "lob", "application_name", "environment"}

----------------------------------------------------------------------------
\* Exceptions. "none" is normal completion.
\*   psycopg2.Error          a driver error (PoolError included)
\*   IntegrityError          psycopg2.IntegrityError: a constraint is violated
\*   AttributeError          a read of an attribute the object does not have
\*   ValidationError         pydantic: a required field is missing (a ValueError)
\*   ValueError:no_row       the DAO's "No error event found with ID" (rowcount 0)
\*   ValueError:not_found    approve_error_event: "... not found"
\*   ValueError:not_pending  approve_error_event: "... is not in PENDING_APPROVAL state"

Exceptions == {"none", "psycopg2.Error", "IntegrityError", "AttributeError",
               "ValidationError",
               "ValueError:no_row", "ValueError:not_found", "ValueError:not_pending"}

\* The class of the exception object, as `type(e)` gives it.
ExcClass(e) ==
    CASE e \in {"ValueError:no_row", "ValueError:not_found", "ValueError:not_pending"}
            -> "ValueError"
      [] OTHER -> e

\* `except psycopg2.Error` catches e.
IsDriverError(e) == e \in {"psycopg2.Error", "IntegrityError"}

NoWrite == [table |-> "none", id |-> 0, lob_row |-> <<>>, event_row |-> <<>>]

\* The database fields of an ErrorEvent a request may set, with the defaults
\* of the model (0 is None).
ErrorEvent_defaults == [event_id |-> 0, lob_app_id |-> 0, event_state |-> "NEW"]

IdleThread ==
    [op |-> "none", pc |-> "idle", call |-> "none", dao |-> "none",
     key |-> <<>>, auto_resolve |-> FALSE,
     \* body: the ErrorEvent as parsed from the request; error_event: the same
     \* object as the handler and the service have set it since
     body |-> ErrorEvent_defaults, error_event |-> ErrorEvent_defaults,
     event_id |-> 0, new_state |-> "none",
     lob_application |-> <<>>, lookup |-> <<>>, result |-> <<>>, ret |-> <<>>,
     \* connection: the thread holds a pooled connection; getconn_calls and
     \* putconn_calls count its request's successful getconn() and putconn()
     connection |-> FALSE, txn |-> "none", write |-> NoWrite,
     exc |-> "none", store_failed |-> FALSE, rollback_failed |-> FALSE,
     raised |-> "none", status |-> 0, outcome |-> "none",
     out_event_id |-> 0, out_event_state |-> "none", queued |-> FALSE,
     \* submitted: the request called tasks.submit_error_event (no code does)
     submitted |-> FALSE,
     getconn_calls |-> 0, putconn_calls |-> 0]

----------------------------------------------------------------------------
\* The seeded databases and the initial state.

EmptyTable == [i \in {} |-> 0]

Extend(f, id, row) == [i \in DOMAIN f \cup {id} |-> IF i = id THEN row ELSE f[i]]

LobRow(id, k, a) ==
    [lob_app_id |-> id, lob |-> k.lob, application_name |-> k.application_name,
     environment |-> k.environment, auto_resolve |-> a]

EventRow(cfg, st, ts) ==
    [lob_app_id |-> cfg, event_state |-> st, created_ts |-> ts, updated_ts |-> ts,
     resolution |-> "NULL", confidence |-> "NULL", pull_request_url |-> "NULL",
     occurrence_count |-> 1]

SeedKey == [lob |-> "RETAIL", application_name |-> "checkout", environment |-> "prod"]

Init ==
    /\ \E seeded \in BOOLEAN, a \in BOOLEAN, st \in SeedEvents :
            /\ (~seeded) => st = <<>>
            /\ lob_applications =
                 IF seeded THEN Extend(EmptyTable, 1, LobRow(1, SeedKey, a))
                           ELSE EmptyTable
            /\ error_events = [i \in 1 .. Len(st) |-> EventRow(1, st[i], 0)]
            /\ lob_app_id_seq = IF seeded THEN 1 ELSE 0
            /\ event_id_seq = Len(st)
    /\ now = 0
    /\ pool = [d \in Daos |-> [created |-> FALSE, used |-> 0]]
    /\ thr = [t \in Threads |-> IdleThread]
    /\ ops = 0

----------------------------------------------------------------------------
\* Requests: each sets up the first DAO call of its handler.

FirstCall(op, call, dao) ==
    [IdleThread EXCEPT !.op = op, !.pc = "acquire", !.call = call, !.dao = dao]

\* web_main.onboard_lob_applications -> LobApplicationsService.create_lob_application
onboard_lob_applications(t) ==
    /\ thr[t].pc = "idle"
    /\ ops < MaxOps
    /\ \E k \in Keys, a \in BOOLEAN :
         thr' = [thr EXCEPT ![t] =
                   [FirstCall("onboard_lob_applications", "save", "LobApplicationDao")
                      EXCEPT !.key = <<k>>, !.auto_resolve = a]]
    /\ ops' = ops + 1
    /\ UNCHANGED <<lob_applications, error_events, lob_app_id_seq, event_id_seq,
                   now, pool>>

\* web_main.capture_error_event, up to the configuration lookup
capture_error_event(t) ==
    /\ thr[t].pc = "idle"
    /\ ops < MaxOps
    /\ \E k \in Keys :
         thr' = [thr EXCEPT ![t] =
                   [FirstCall("capture_error_event",
                              "find_by_lob_application_and_environment",
                              "LobApplicationDao")
                      EXCEPT !.key = <<k>>]]
    /\ ops' = ops + 1
    /\ UNCHANGED <<lob_applications, error_events, lob_app_id_seq, event_id_seq,
                   now, pool>>

\* web_main.approve_error_event -> ErrorEventService.approve_error_event
approve_error_event(t) ==
    /\ thr[t].pc = "idle"
    /\ ops < MaxOps
    /\ \E id \in EventIds :
         thr' = [thr EXCEPT ![t] =
                   [FirstCall("approve_error_event", "find_by_id", "ErrorEventDao")
                      EXCEPT !.event_id = id]]
    /\ ops' = ops + 1
    /\ UNCHANGED <<lob_applications, error_events, lob_app_id_seq, event_id_seq,
                   now, pool>>

\* ErrorEventService.update_error_resolution
update_error_resolution(t) ==
    /\ thr[t].pc = "idle"
    /\ ops < MaxOps
    /\ \E id \in EventIds, s \in TargetStates :
         thr' = [thr EXCEPT ![t] =
                   [FirstCall("update_error_resolution", "update_error_resolution",
                              "ErrorEventDao")
                      EXCEPT !.event_id = id, !.new_state = s]]
    /\ ops' = ops + 1
    /\ UNCHANGED <<lob_applications, error_events, lob_app_id_seq, event_id_seq,
                   now, pool>>

----------------------------------------------------------------------------
\* The bodies of the DAO methods: what the `with self._get_db_cursor()` block
\* does on the committed tables. Each gives the exception it ends with, the
\* value it returns, the row fetched and the write it leaves pending.

BodyResult(exc, ret, result, write) ==
    [exc |-> exc, ret |-> ret, result |-> result, write |-> write]

\* Uniqueness constraint of lob_applications on (lob, application_name, environment).
natural_key_taken(k) ==
    \E i \in DOMAIN lob_applications :
        /\ lob_applications[i].lob = k.lob
        /\ lob_applications[i].application_name = k.application_name
        /\ lob_applications[i].environment = k.environment

\* save on a table without the unique index on the natural key.
save_without_unique_index(r) ==
    LET row == LobRow(lob_app_id_seq + 1, r.key[1], r.auto_resolve) IN
    BodyResult("none", <<row>>, <<row>>,
               [NoWrite EXCEPT !.table = "lob_applications",
                               !.id = row.lob_app_id, !.lob_row = <<row>>])

\* LobApplicationDao.save
save(r) ==
    LET row == LobRow(lob_app_id_seq + 1, r.key[1], r.auto_resolve) IN
    IF natural_key_taken(r.key[1])
    THEN BodyResult("IntegrityError", <<>>, <<>>, NoWrite)
    ELSE BodyResult("none", <<row>>, <<row>>,
                    [NoWrite EXCEPT !.table = "lob_applications",
                                    !.id = row.lob_app_id, !.lob_row = <<row>>])

\* find_by_lob_application_and_environment with a WHERE clause that leaves
\* out the environment.
find_by_key_ignoring_environment(r) ==
    LET k == r.key[1]
        m == {i \in DOMAIN lob_applications :
                /\ lob_applications[i].lob = k.lob
                /\ lob_applications[i].application_name = k.application_name}
        first == CHOOSE i \in m : \A j \in m : i <= j
    IN  IF m = {} THEN BodyResult("none", <<>>, <<>>, NoWrite)
        ELSE BodyResult("none", <<lob_applications[first]>>,
                        <<lob_applications[first]>>, NoWrite)

\* LobApplicationDao.find_by_lob_application_and_environment
find_by_lob_application_and_environment(r) ==
    LET k == r.key[1]
        m == {i \in DOMAIN lob_applications :
                /\ lob_applications[i].lob = k.lob
                /\ lob_applications[i].application_name = k.application_name
                /\ lob_applications[i].environment = k.environment}
        first == CHOOSE i \in m : \A j \in m : i <= j
    IN  IF m = {} THEN BodyResult("none", <<>>, <<>>, NoWrite)
        ELSE BodyResult("none", <<lob_applications[first]>>,
                        <<lob_applications[first]>>, NoWrite)

\* The text order of the application and environment names, for ORDER BY.
Collation == <<"billing", "checkout", "prod", "uat">>

TextRank(name) == CHOOSE i \in DOMAIN Collation : Collation[i] = name

\* ORDER BY application_name, environment (rows equal in both: in id order).
ConfigBefore(a, b) ==
    \/ TextRank(a.application_name) < TextRank(b.application_name)
    \/ /\ a.application_name = b.application_name
       /\ TextRank(a.environment) < TextRank(b.environment)
    \/ /\ a.application_name = b.application_name
       /\ a.environment = b.environment
       /\ a.lob_app_id < b.lob_app_id

RECURSIVE ConfigsInOrder(_, _)
ConfigsInOrder(ids, by_id) ==
    IF ids = {} THEN <<>>
    ELSE LET first ==
               CHOOSE i \in ids :
                 \A j \in ids \ {i} :
                   IF by_id THEN i < j
                   ELSE ConfigBefore(lob_applications[i], lob_applications[j])
         IN  <<lob_applications[first]>> \o ConfigsInOrder(ids \ {first}, by_id)

\* LobApplicationDao.find_by_lob without the ORDER BY: rows as stored.
LobApplicationDao_find_by_lob_unordered(r) ==
    LET rows == ConfigsInOrder({i \in DOMAIN lob_applications :
                                  lob_applications[i].lob = r.key[1].lob}, TRUE)
    IN  BodyResult("none", rows, rows, NoWrite)

\* LobApplicationDao.find_by_lob
LobApplicationDao_find_by_lob(r) ==
    LET rows == ConfigsInOrder({i \in DOMAIN lob_applications :
                                  lob_applications[i].lob = r.key[1].lob}, FALSE)
    IN  BodyResult("none", rows, rows, NoWrite)

\* ErrorEventDao.save_error_event: the parameter tuple reads attributes of the
\* ErrorEvent before cursor.execute runs.
save_error_event(r) ==
    LET row == EventRow(r.error_event.lob_app_id, r.error_event.event_state,
                        now + 1) IN
    IF ~(save_error_event_params \subseteq ErrorEvent_fields)
    THEN BodyResult("AttributeError", <<>>, <<>>, NoWrite)
    ELSE BodyResult("none",
                    <<[event_id |-> event_id_seq + 1,
                       event_state |-> r.error_event.event_state]>>,
                    <<row>>,
                    [NoWrite EXCEPT !.table = "error_events",
                                    !.id = event_id_seq + 1, !.event_row = <<row>>])

\* ErrorEventDao.find_by_id: fetchone, then ErrorEvent(...) from the row.
find_by_id(r) ==
    IF r.event_id \notin DOMAIN error_events
    THEN BodyResult("none", <<>>, <<>>, NoWrite)
    ELSE LET row == error_events[r.event_id] IN
         IF ~(ErrorEvent_required \subseteq find_by_id_kwargs)
         THEN BodyResult("ValidationError", <<>>, <<row>>, NoWrite)
         ELSE BodyResult("none", <<row>>, <<row>>, NoWrite)

\* Keyword arguments ErrorEventDao.find_by_lob passes to ErrorEvent(...): the
\* same names as in find_by_id.
find_by_lob_kwargs == find_by_id_kwargs

\* ORDER BY ee.created_ts DESC (rows of equal created_ts: in id order).
RECURSIVE EventsInOrder(_)
EventsInOrder(ids) ==
    IF ids = {} THEN <<>>
    ELSE LET first ==
               CHOOSE i \in ids :
                 \A j \in ids \ {i} :
                   \/ error_events[i].created_ts > error_events[j].created_ts
                   \/ /\ error_events[i].created_ts = error_events[j].created_ts
                      /\ i < j
         IN  <<error_events[first]>> \o EventsInOrder(ids \ {first})

\* ErrorEventDao.find_by_lob: the join with lob_applications, fetchall, then
\* one ErrorEvent(...) per row.
ErrorEventDao_find_by_lob(r) ==
    LET rows == EventsInOrder(
                  {i \in DOMAIN error_events :
                     /\ error_events[i].lob_app_id \in DOMAIN lob_applications
                     /\ lob_applications[error_events[i].lob_app_id].lob
                          = r.key[1].lob})
    IN  IF rows # <<>> /\ ~(ErrorEvent_required \subseteq find_by_lob_kwargs)
        THEN BodyResult("ValidationError", <<>>, rows, NoWrite)
        ELSE BodyResult("none", rows, rows, NoWrite)

\* update_event_state with an UPDATE that leaves updated_ts as it was.
update_event_state_keeping_timestamp(r) ==
    IF r.event_id \in DOMAIN error_events
    THEN LET old == error_events[r.event_id]
             new == [old EXCEPT !.event_state = r.new_state]
         IN  BodyResult("none", <<>>, <<old>>,
                        [NoWrite EXCEPT !.table = "error_events",
                                        !.id = r.event_id, !.event_row = <<new>>])
    ELSE BodyResult("ValueError:no_row", <<>>, <<>>, NoWrite)

\* update_event_state without the test of cursor.rowcount.
update_event_state_unchecked(r) ==
    IF r.event_id \in DOMAIN error_events
    THEN LET old == error_events[r.event_id]
             new == [old EXCEPT !.event_state = r.new_state, !.updated_ts = now + 1]
         IN  BodyResult("none", <<>>, <<old>>,
                        [NoWrite EXCEPT !.table = "error_events",
                                        !.id = r.event_id, !.event_row = <<new>>])
    ELSE BodyResult("none", <<>>, <<>>, NoWrite)

\* ErrorEventDao.update_event_state: UPDATE ... WHERE event_id, then rowcount.
update_event_state(r) ==
    IF r.event_id \in DOMAIN error_events
    THEN LET old == error_events[r.event_id]
             new == [old EXCEPT !.event_state = r.new_state, !.updated_ts = now + 1]
         IN  BodyResult("none", <<>>, <<old>>,
                        [NoWrite EXCEPT !.table = "error_events",
                                        !.id = r.event_id, !.event_row = <<new>>])
    ELSE BodyResult("ValueError:no_row", <<>>, <<>>, NoWrite)

\* update_error_resolution that accepts only a row in state PROCESSING.
dao_update_error_resolution_from_processing(r) ==
    IF r.event_id \in DOMAIN error_events
    THEN LET old == error_events[r.event_id]
             new == [old EXCEPT !.resolution = "fix", !.confidence = "0.9",
                                !.pull_request_url = "pr",
                                !.event_state = r.new_state,
                                !.updated_ts = now + 1]
         IN  IF old.event_state # "PROCESSING"
             THEN BodyResult("ValueError:no_row", <<>>, <<old>>, NoWrite)
             ELSE BodyResult("none", <<>>, <<old>>,
                             [NoWrite EXCEPT !.table = "error_events",
                                             !.id = r.event_id,
                                             !.event_row = <<new>>])
    ELSE BodyResult("ValueError:no_row", <<>>, <<>>, NoWrite)

\* update_error_resolution with occurrence_count reset by the UPDATE.
dao_update_error_resolution_resetting_count(r) ==
    IF r.event_id \in DOMAIN error_events
    THEN LET old == error_events[r.event_id]
             new == [old EXCEPT !.resolution = "fix", !.confidence = "0.9",
                                !.pull_request_url = "pr",
                                !.event_state = r.new_state,
                                !.updated_ts = now + 1,
                                !.occurrence_count = 0]
         IN  BodyResult("none", <<>>, <<old>>,
                        [NoWrite EXCEPT !.table = "error_events",
                                        !.id = r.event_id, !.event_row = <<new>>])
    ELSE BodyResult("ValueError:no_row", <<>>, <<>>, NoWrite)

\* ErrorEventDao.update_error_resolution: one UPDATE of five columns.
dao_update_error_resolution(r) ==
    IF r.event_id \in DOMAIN error_events
    THEN LET old == error_events[r.event_id]
             new == [old EXCEPT !.resolution = "fix", !.confidence = "0.9",
                                !.pull_request_url = "pr",
                                !.event_state = r.new_state,
                                !.updated_ts = now + 1]
         IN  BodyResult("none", <<>>, <<old>>,
                        [NoWrite EXCEPT !.table = "error_events",
                                        !.id = r.event_id, !.event_row = <<new>>])
    ELSE BodyResult("ValueError:no_row", <<>>, <<>>, NoWrite)

Body(r) ==
    CASE r.call = "save" -> save(r)
      [] r.call = "find_by_lob_application_and_environment"
            -> find_by_lob_application_and_environment(r)
      [] r.call = "save_error_event" -> save_error_event(r)
      [] r.call = "find_by_id" -> find_by_id(r)
      [] r.call = "update_event_state" -> update_event_state(r)
      [] r.call = "find_by_lob" /\ r.dao = "LobApplicationDao"
            -> LobApplicationDao_find_by_lob(r)
      [] r.call = "find_by_lob" /\ r.dao = "ErrorEventDao"
            -> ErrorEventDao_find_by_lob(r)
      [] OTHER -> dao_update_error_resolution(r)

\* The statement of thread t has to wait: another transaction holds a pending
\* write of the row it updates (row lock), or a pending insert of its key
\* (unique index).
Blocked(t) ==
    LET r == thr[t] IN
    \E u \in Threads \ {t} :
        LET w == thr[u].write IN
        \/ /\ r.call \in {"update_event_state", "update_error_resolution"}
           /\ w.table = "error_events"
           /\ w.id = r.event_id
        \/ /\ r.call = "save"
           /\ w.table = "lob_applications"
           /\ w.lob_row[1].lob = r.key[1].lob
           /\ w.lob_row[1].application_name = r.key[1].application_name
           /\ w.lob_row[1].environment = r.key[1].environment

----------------------------------------------------------------------------
\* What the caller of a DAO method does once the method has returned r.ret or
\* raised r.exc: it finishes the request, or goes on to its next DAO call.

Finish(r, status, outcome, raised) ==
    [r EXCEPT !.pc = "idle", !.status = status, !.outcome = outcome,
              !.raised = raised]

NextCall(r, call, dao) ==
    [r EXCEPT !.pc = "acquire", !.call = call, !.dao = dao, !.exc = "none",
              !.ret = <<>>, !.result = <<>>, !.txn = "none"]

\* web_main.capture_error_event: the initial state from auto_resolve.
initial_event_state(lob_application) ==
    IF lob_application.auto_resolve THEN "PROCESSING" ELSE "PENDING_APPROVAL"

\* create_error_event that keeps a state the request body has set.
create_error_event_keeping_body_state(error_event, lob_app_id, event_state) ==
    [error_event EXCEPT !.lob_app_id = lob_app_id,
                        !.event_state = IF error_event.event_state = "NEW"
                                        THEN event_state ELSE @]

\* ErrorEventService.create_error_event, up to the DAO call: the two
\* assignments to the event it was given.
create_error_event(error_event, lob_app_id, event_state) ==
    [error_event EXCEPT !.lob_app_id = lob_app_id, !.event_state = event_state]

\* capture_after_lookup with a missing configuration treated as a failure.
capture_after_lookup_raising(r) ==
    IF r.exc # "none" THEN Finish(r, 500, "error", r.exc)
    ELSE IF r.ret = <<>> THEN Finish(r, 500, "error", "AttributeError")
    ELSE [NextCall(r, "save_error_event", "ErrorEventDao")
            EXCEPT !.lob_application = r.ret,
                   !.new_state = initial_event_state(r.ret[1]),
                   !.error_event =
                       create_error_event(r.error_event, r.ret[1].lob_app_id,
                                          initial_event_state(r.ret[1]))]

\* capture_after_lookup with a fallback to the first stored configuration when
\* the key resolves to none.
capture_after_lookup_fallback(r) ==
    IF r.exc # "none" THEN Finish(r, 500, "error", r.exc)
    ELSE IF r.ret = <<>> /\ lob_applications = EmptyTable
    THEN Finish(r, 200, "skipped", "none")
    ELSE LET c == IF r.ret # <<>> THEN r.ret
                  ELSE <<lob_applications[CHOOSE i \in DOMAIN lob_applications :
                              \A j \in DOMAIN lob_applications : i <= j]>>
         IN [NextCall(r, "save_error_event", "ErrorEventDao")
               EXCEPT !.lob_application = c,
                      !.new_state = initial_event_state(c[1]),
                      !.error_event =
                          create_error_event(r.error_event, c[1].lob_app_id,
                                             initial_event_state(c[1]))]

\* web_main.capture_error_event after get_lob_application_by_lob_app_and_env
capture_after_lookup(r) ==
    IF r.exc # "none" THEN Finish(r, 500, "error", r.exc)
    ELSE IF r.ret = <<>> THEN Finish(r, 200, "skipped", "none")
    ELSE [NextCall(r, "save_error_event", "ErrorEventDao")
            EXCEPT !.lob_application = r.ret,
                   !.new_state = initial_event_state(r.ret[1]),
                   !.error_event =
                       create_error_event(r.error_event, r.ret[1].lob_app_id,
                                          initial_event_state(r.ret[1]))]

\* capture_after_create with the queue signal given before the outcome of
\* create_error_event is looked at.
capture_after_create_signal_first(r) ==
    IF r.exc # "none"
    THEN [Finish(r, 500, "error", r.exc)
            EXCEPT !.queued = r.lob_application[1].auto_resolve]
    ELSE [Finish(r, 200, "created", "none")
            EXCEPT !.queued = r.lob_application[1].auto_resolve,
                   !.out_event_id = r.ret[1].event_id,
                   !.out_event_state = r.ret[1].event_state]

\* web_main.capture_error_event after create_error_event
capture_after_create(r) ==
    IF r.exc # "none" THEN Finish(r, 500, "error", r.exc)
    ELSE [Finish(r, 200, "created", "none")
            EXCEPT !.queued = r.lob_application[1].auto_resolve,
                   !.out_event_id = r.ret[1].event_id,
                   !.out_event_state = r.ret[1].event_state]

\* web_main.approve_error_event: the status for what the service call gave.
\* `raised` is the exception of the service call ("none": it returned, and
\* success is its return value).
approve_response(raised, success) ==
    IF raised # "none" THEN 500
    ELSE IF success THEN 200
    ELSE 404

\* The value ErrorEventService.approve_error_event returns: it has no return
\* statement, so None, which the handler tests as false.
approve_return_value == FALSE

\* approve_after_find with a failure of find_by_id taken for "no such event".
approve_after_find_masking(r) ==
    IF r.exc # "none" \/ r.ret = <<>>
    THEN Finish(r, approve_response("ValueError:not_found", FALSE), "error",
                "ValueError:not_found")
    ELSE IF r.ret[1].event_state # "PENDING_APPROVAL"
    THEN Finish(r, approve_response("ValueError:not_pending", FALSE), "error",
                "ValueError:not_pending")
    ELSE [NextCall(r, "update_event_state", "ErrorEventDao")
            EXCEPT !.new_state = "PROCESSING"]

\* ErrorEventService.approve_error_event after find_by_id
approve_after_find(r) ==
    IF r.exc # "none"
    THEN Finish(r, approve_response(r.exc, FALSE), "error", r.exc)
    ELSE IF r.ret = <<>>
    THEN Finish(r, approve_response("ValueError:not_found", FALSE), "error",
                "ValueError:not_found")
    ELSE IF r.ret[1].event_state # "PENDING_APPROVAL"
    THEN Finish(r, approve_response("ValueError:not_pending", FALSE), "error",
                "ValueError:not_pending")
    ELSE [NextCall(r, "update_event_state", "ErrorEventDao")
            EXCEPT !.new_state = "PROCESSING"]

\* ErrorEventService.approve_error_event after update_event_state
approve_after_update(r) ==
    IF r.exc # "none"
    THEN Finish(r, approve_response(r.exc, FALSE), "error", r.exc)
    ELSE [Finish(r, approve_response("none", approve_return_value),
                 IF approve_response("none", approve_return_value) = 200
                 THEN "approved" ELSE "error",
                 "none")
            EXCEPT !.queued = TRUE]

\* ErrorEventService.update_error_resolution after the DAO call
resolution_after_update(r) ==
    IF r.exc # "none" THEN Finish(r, 0, "raised", r.exc)
    ELSE Finish(r, 0, "returned", "none")

\* web_main.onboard_lob_applications after create_lob_application
onboard_after_save(r) ==
    IF r.exc # "none" THEN Finish(r, 500, "error", r.exc)
    ELSE Finish(r, 200, "created", "none")

\* web_main.get_error_events after get_error_events_by_lob
get_error_events_after(r) ==
    IF r.exc # "none" THEN Finish(r, 500, "error", r.exc)
    ELSE Finish(r, 200, "listed", "none")

\* Operations that consist of one DAO call whose result or exception goes to
\* the caller as it is: ErrorEventDao.update_event_state called directly,
\* ErrorEventService.get_error_event_by_id, and the configuration lookups
\* web_main.get_lob_applications_by_lob and
\* LobApplicationsService.get_lob_application_by_lob_app_and_env.
SingleCalls == {"update_event_state", "get_error_event_by_id",
                "get_lob_applications_by_lob",
                "get_lob_application_by_lob_app_and_env"}

single_call_after(r) ==
    IF r.exc # "none" THEN Finish(r, 0, "raised", r.exc)
    ELSE Finish(r, 0, "returned", "none")

Return(r) ==
    IF r.op \in SingleCalls THEN single_call_after(r)
    ELSE
    CASE r.call = "find_by_lob_application_and_environment" -> capture_after_lookup(r)
      [] r.call = "save_error_event" -> capture_after_create(r)
      [] r.call = "find_by_id" -> approve_after_find(r)
      [] r.call = "update_event_state" -> approve_after_update(r)
      [] r.call = "update_error_resolution" -> resolution_after_update(r)
      [] r.call = "find_by_lob" -> get_error_events_after(r)
      [] OTHER -> onboard_after_save(r)

----------------------------------------------------------------------------
\* The four steps of a DAO method.

\* _get_db_connection, entry: _get_connection_pool() and pool.getconn().
\* The pool is created on first use; getconn raises PoolError (a
\* psycopg2.Error) when every connection is out, and the driver may fail to
\* connect. A failure here leaves nothing to return to the pool.
acquire_connection(t, maxconn) ==
    LET r == thr[t] IN
    /\ r.pc = "acquire"
    /\ \E driver_ok \in BOOLEAN :
         IF driver_ok /\ pool[r.dao].used < maxconn
         THEN /\ pool' = [pool EXCEPT ![r.dao] =
                            [created |-> TRUE, used |-> pool[r.dao].used + 1]]
              /\ thr' = [thr EXCEPT ![t] =
                           [r EXCEPT !.pc = "execute", !.connection = TRUE,
                                     !.getconn_calls = r.getconn_calls + 1]]
         ELSE /\ pool' = pool
              /\ thr' = [thr EXCEPT ![t] =
                           Return([r EXCEPT !.exc = "psycopg2.Error",
                                            !.store_failed = TRUE])]
    /\ UNCHANGED <<lob_applications, error_events, lob_app_id_seq, event_id_seq,
                   now, ops>>

\* _get_db_connection on a pool of pool_max_connections connections.
get_db_connection(t) == acquire_connection(t, pool_max_connections)

\* _get_db_cursor, entry, and the body of the `with` block. A driver error may
\* end the statement after it has acted on the transaction.
cursor_body(t) ==
    LET r == thr[t]
        b == Body(r)
    IN
    /\ r.pc = "execute"
    /\ ~Blocked(t)
    /\ \E driver_ok \in BOOLEAN :
         thr' = [thr EXCEPT ![t] =
                   [r EXCEPT !.pc = "exit",
                             !.txn = IF b.exc = "AttributeError" THEN "none" ELSE "open",
                             !.exc = IF driver_ok THEN b.exc ELSE "psycopg2.Error",
                             !.store_failed = r.store_failed \/ ~driver_ok
                                              \/ IsDriverError(b.exc),
                             !.ret = IF driver_ok THEN b.ret ELSE <<>>,
                             !.result = b.result,
                             !.lookup = IF r.call \in {"find_by_id",
                                             "find_by_lob_application_and_environment"}
                                        THEN b.result ELSE r.lookup,
                             !.write = b.write]]
    /\ lob_app_id_seq' = IF r.call = "save" THEN lob_app_id_seq + 1 ELSE lob_app_id_seq
    /\ event_id_seq' = IF b.write.table = "error_events" /\ r.call = "save_error_event"
                       THEN event_id_seq + 1 ELSE event_id_seq
    /\ now' = IF b.write.table # "none" THEN now + 1 ELSE now
    /\ UNCHANGED <<lob_applications, error_events, pool, ops>>


\* The table after the pending write w is committed.
Committed(table, name, w) ==
    IF w.table # name THEN table
    ELSE IF name = "lob_applications" THEN Extend(table, w.id, w.lob_row[1])
    ELSE Extend(table, w.id, w.event_row[1])

\* cursor_scope_exit with connection.commit() in the `finally`: a scope left
\* by a driver error commits what the statement did before it failed.
cursor_scope_exit_commit_always(e, txn, commit_ok, rollback_ok) ==
    IF e = "none" /\ commit_ok
    THEN [txn |-> "committed", exc |-> "none", applied |-> TRUE,
          rollback_failed |-> FALSE]
    ELSE IF e = "none" \/ IsDriverError(e)
    THEN [txn |-> "committed", exc |-> IF e = "none" THEN "psycopg2.Error" ELSE e,
          applied |-> TRUE, rollback_failed |-> FALSE]
    ELSE [txn |-> txn, exc |-> e, applied |-> FALSE, rollback_failed |-> FALSE]

\* _get_db_cursor, exit: what the scope does with the transaction for the
\* exception e the body ended with. commit_ok / rollback_ok: whether the
\* driver carries out the commit / the rollback when asked to.
\*   normal completion:  connection.commit(); a failing commit is a
\*                       psycopg2.Error raised inside the try, so it is
\*                       handled like one raised by the body
\*   psycopg2.Error:     connection.rollback(), then re-raise it; a failing
\*                       rollback raises its own psycopg2.Error instead
\*   any other exception: neither (only `finally: cursor.close()` runs)
\* The result: the state of the transaction, the exception that leaves the
\* scope, and whether the pending write reached the tables.
cursor_scope_exit(e, txn, commit_ok, rollback_ok) ==
    IF e = "none" /\ commit_ok
    THEN [txn |-> "committed", exc |-> "none", applied |-> TRUE,
          rollback_failed |-> FALSE]
    ELSE IF e = "none" \/ IsDriverError(e)
    THEN [txn |-> IF rollback_ok THEN "rolledback" ELSE txn,
          exc |-> IF e = "none" \/ ~rollback_ok THEN "psycopg2.Error" ELSE e,
          applied |-> FALSE,
          rollback_failed |-> ~rollback_ok]
    ELSE [txn |-> txn, exc |-> e, applied |-> FALSE, rollback_failed |-> FALSE]

get_db_cursor_exit(t) ==
    LET r == thr[t] IN
    /\ r.pc = "exit"
    /\ \E commit_ok \in BOOLEAN, rollback_ok \in BOOLEAN :
         LET x == cursor_scope_exit(r.exc, r.txn, commit_ok, rollback_ok) IN
         /\ thr' = [thr EXCEPT ![t] =
                      [r EXCEPT !.pc = "release",
                                !.txn = x.txn,
                                !.exc = x.exc,
                                !.ret = IF x.exc = "none" THEN r.ret ELSE <<>>,
                                !.rollback_failed = x.rollback_failed,
                                !.store_failed = r.store_failed \/ IsDriverError(x.exc),
                                !.write = IF x.txn \in {"committed", "rolledback"}
                                          THEN NoWrite ELSE r.write]]
         /\ lob_applications' =
              IF x.applied THEN Committed(lob_applications, "lob_applications", r.write)
              ELSE lob_applications
         /\ error_events' =
              IF x.applied THEN Committed(error_events, "error_events", r.write)
              ELSE error_events
    /\ UNCHANGED <<lob_app_id_seq, event_id_seq, now, pool, ops>>

\* putconn_runs with putconn in an `except` branch instead of in `finally`.
putconn_runs_on_failure_only(connection, e) == connection /\ e # "none"

\* putconn_runs with putconn at the end of the try body instead of in `finally`.
putconn_runs_on_success_only(connection, e) == connection /\ e = "none"

\* _get_db_connection, `finally`: whether pool.putconn(connection) runs for a
\* scope that holds `connection` and ends with exception e.
putconn_runs(connection, e) == connection

\* _get_db_connection, exit: the connection goes back to the pool, which
\* discards a transaction still open on it; then the DAO method returns or
\* raises into its caller.
get_db_connection_exit(t) ==
    LET r == thr[t]
        put == putconn_runs(r.connection, r.exc)
        after == [r EXCEPT !.connection = IF put THEN FALSE ELSE r.connection,
                           !.txn = IF put /\ r.txn = "open" THEN "discarded" ELSE r.txn,
                           !.write = IF put THEN NoWrite ELSE r.write,
                           !.putconn_calls = IF put THEN r.putconn_calls + 1
                                             ELSE r.putconn_calls]
    IN
    /\ r.pc = "release"
    /\ pool' = IF put THEN [pool EXCEPT ![r.dao].used = pool[r.dao].used - 1] ELSE pool
    /\ thr' = [thr EXCEPT ![t] = Return(after)]
    /\ UNCHANGED <<lob_applications, error_events, lob_app_id_seq, event_id_seq,
                   now, ops>>

----------------------------------------------------------------------------
Next ==
    \E t \in Threads :
        \/ onboard_lob_applications(t)
        \/ capture_error_event(t)
        \/ approve_error_event(t)
        \/ update_error_resolution(t)
        \/ get_db_connection(t)
        \/ cursor_body(t)
        \/ get_db_cursor_exit(t)
        \/ get_db_connection_exit(t)

Spec == Init /\ [][Next]_vars

----------------------------------------------------------------------------
\* Properties.

\* Thread t has finished a request of kind op (its outcome is in thr[t]).
Finished(t, op) == thr[t].pc = "idle" /\ thr[t].op = op

\* No driver error (psycopg2.Error) occurred in any store call of t's request.
StoreOk(t) == ~thr[t].store_failed

\* The lookup of t's request fetched a row / fetched none.
Found(t) == thr[t].lookup # <<>>

\* C1: an ingestion whose key resolves to a stored configuration and whose
\* store calls do not fail persists one event row, PROCESSING when
\* auto_resolve is true and PENDING_APPROVAL when it is false, and answers
\* Created with the store-assigned event id and that state.
C1_IngestCreatesEvent ==
    \A t \in Threads :
        (Finished(t, "capture_error_event") /\ Found(t) /\ StoreOk(t))
        => /\ thr[t].status \in {200, 201}
           /\ thr[t].outcome = "created"
           /\ thr[t].out_event_state = initial_event_state(thr[t].lookup[1])
           /\ thr[t].out_event_id \in DOMAIN error_events

\* C2: an ingestion whose key matches no stored configuration answers
\* Skipped as a normal result (status 200, no exception, no event id), and no
\* step of it changes the event rows or the event id sequence.
C2_SkippedOnNoConfiguration ==
    /\ [](\A t \in Threads :
            (Finished(t, "capture_error_event") /\ ~Found(t) /\ StoreOk(t))
            => /\ thr[t].status = 200
               /\ thr[t].outcome = "skipped"
               /\ thr[t].raised = "none"
               /\ thr[t].out_event_id = 0
               /\ thr[t].getconn_calls = 1)
    /\ [][\A t \in Threads :
            (thr'[t] # thr[t] /\ thr'[t].op = "capture_error_event"
               /\ thr'[t].lob_application = <<>>)
            => /\ error_events' = error_events
               /\ event_id_seq' = event_id_seq]_vars

C2_Witness ==
    \E t \in Threads :
        /\ Finished(t, "capture_error_event")
        /\ thr[t].outcome = "skipped"
        /\ lob_applications # EmptyTable

\* C3: approve of an existing event whose state is not PENDING_APPROVAL fails
\* with the illegal-transition error (and writes nothing).
C3_ApproveRejectsNonPending ==
    \A t \in Threads :
        (Finished(t, "approve_error_event") /\ Found(t) /\ StoreOk(t)
           /\ thr[t].lookup[1].event_state # "PENDING_APPROVAL")
        => /\ thr[t].raised = "ValueError:not_pending"
           /\ thr[t].getconn_calls = 1

\* C4: the lifecycle under auto_resolve = false: the ingestion stores the event
\* as PENDING_APPROVAL, approve of a PENDING_APPROVAL event succeeds, and
\* approve of the event once it is PROCESSING fails as an illegal transition.
C4_Lifecycle ==
    \A t \in Threads :
        /\ (Finished(t, "capture_error_event") /\ Found(t) /\ StoreOk(t)
              /\ ~thr[t].lookup[1].auto_resolve)
           => (thr[t].outcome = "created"
                 /\ thr[t].out_event_state = "PENDING_APPROVAL")
        /\ (Finished(t, "approve_error_event") /\ Found(t) /\ StoreOk(t)
              /\ thr[t].lookup[1].event_state = "PENDING_APPROVAL")
           => thr[t].raised = "none"
        /\ (Finished(t, "approve_error_event") /\ Found(t) /\ StoreOk(t)
              /\ thr[t].lookup[1].event_state = "PROCESSING")
           => thr[t].raised = "ValueError:not_pending"

\* C6: approve of an id no row has fails as not-found, approve of an existing
\* event that is not PENDING_APPROVAL fails as an illegal transition, and the
\* two exceptions are of different classes.
C6_DistinctErrorKinds ==
    \A t \in Threads, u \in Threads :
        (/\ Finished(t, "approve_error_event") /\ ~Found(t) /\ StoreOk(t)
         /\ Finished(u, "approve_error_event") /\ Found(u) /\ StoreOk(u)
         /\ thr[u].lookup[1].event_state # "PENDING_APPROVAL")
        => /\ thr[t].raised = "ValueError:not_found"
           /\ thr[u].raised = "ValueError:not_pending"
           /\ ExcClass(thr[t].raised) # ExcClass(thr[u].raised)

\* C7: an approve request for an existing PENDING_APPROVAL event, with no
\* store failure, is answered 200 or 201.
C7_ApproveAnswersSuccess ==
    \A t \in Threads :
        (Finished(t, "approve_error_event") /\ Found(t) /\ StoreOk(t)
           /\ thr[t].lookup[1].event_state = "PENDING_APPROVAL")
        => thr[t].status \in {200, 201}

\* C8: an approve request for an id no row has is answered 404, one for an
\* existing event that is not PENDING_APPROVAL is answered 409 or 400.
C8_ApproveErrorStatus ==
    \A t \in Threads :
        (Finished(t, "approve_error_event") /\ StoreOk(t))
        => /\ (~Found(t)) => thr[t].status = 404
           /\ (Found(t) /\ thr[t].lookup[1].event_state # "PENDING_APPROVAL")
              => thr[t].status \in {409, 400}

\* C9: when the cursor scope is left, a body that completed normally has been
\* committed, and a body that raised (whatever the exception) has been rolled
\* back, unless the rollback itself failed, and was not committed.
C9_ScopeCommitsOrRollsBack ==
    \A t \in Threads :
        thr[t].pc = "release"
        => /\ thr[t].exc = "none" => thr[t].txn = "committed"
           /\ (thr[t].exc # "none" /\ thr[t].txn # "none" /\ ~thr[t].rollback_failed)
              => thr[t].txn = "rolledback"
           /\ thr[t].exc # "none" => thr[t].txn # "committed"

\* C10: every connection taken from a pool is put back exactly once on every
\* exit path: a thread between requests holds none and has made as many
\* putconn as getconn calls, a pool's count of connections out is the number
\* of threads holding one of its connections, and when no request is running
\* no connection is out.
C10_ReleaseDiscipline ==
    /\ \A t \in Threads :
          /\ thr[t].putconn_calls <= thr[t].getconn_calls
          /\ thr[t].getconn_calls - thr[t].putconn_calls
               = (IF thr[t].connection THEN 1 ELSE 0)
          /\ thr[t].pc = "idle" => ~thr[t].connection
          /\ thr[t].connection => thr[t].pc \in {"execute", "exit", "release"}
    /\ \A d \in Daos :
          pool[d].used = Cardinality({t \in Threads :
                                        thr[t].connection /\ thr[t].dao = d})
    /\ (\A t \in Threads : thr[t].pc = "idle") => \A d \in Daos : pool[d].used = 0

C10_Witness ==
    \E t \in Threads :
        /\ thr[t].pc = "idle"
        /\ thr[t].op # "none"
        /\ thr[t].rollback_failed
        /\ thr[t].getconn_calls = 1
        /\ thr[t].putconn_calls = 1

----------------------------------------------------------------------------
\* The life of a connection pool, statement by statement.
\*
\* Spec takes _get_connection_pool() and getconn() as one step. The
\* specification below follows _get_connection_pool, _get_db_connection and
\* close_connection_pool line by line, with the body of the store operation
\* left out: a thread only holds its connection between getconn and putconn.
\* It uses the variables pool, thr and ops; the tables stay empty.
\*   pool[d].connection_pool   self._connection_pool: 0 is None, i > 0 is the
\*                             i-th ThreadedConnectionPool the DAO constructed
\*   pool[d].lock              holder of self._pool_lock, or "free"
\*   pool[d].objects[i]        the i-th pool object: closeall() has run on it,
\*                             and the number of its connections handed out
\*   pool[d].shutdown          a close_connection_pool() call that closed a
\*                             pool has returned

\* Operations (store operations and shutdowns) started in one behaviour.
MaxPoolOps == 3

PoolObject == [closed |-> FALSE, used |-> 0]

PoolThread ==
    [op |-> "none", pc |-> "idle", dao |-> "none",
     \* pool: the local variable of _get_db_connection (-1 before it is
     \* assigned); connection: the pool object whose connection is held (0 none)
     pool |-> -1, connection |-> 0, exc |-> "none",
     \* saw_none: the unlocked check found no pool; after_shutdown: the
     \* operation started after a shutdown of its DAO's pool had returned
     saw_none |-> FALSE, after_shutdown |-> FALSE]

InitPool ==
    /\ lob_applications = EmptyTable
    /\ error_events = EmptyTable
    /\ lob_app_id_seq = 0
    /\ event_id_seq = 0
    /\ now = 0
    /\ pool = [d \in Daos |-> [connection_pool |-> 0, lock |-> "free",
                               objects |-> <<>>, shutdown |-> FALSE]]
    /\ thr = [t \in Threads |-> PoolThread]
    /\ ops = 0

PoolStep(t, r, p) ==
    /\ thr' = [thr EXCEPT ![t] = r]
    /\ pool' = [pool EXCEPT ![r.dao] = p]
    /\ UNCHANGED <<lob_applications, error_events, lob_app_id_seq, event_id_seq,
                   now, ops>>

\* Any DAO method: `with self._get_db_connection() as connection`.
store_operation(t) ==
    /\ thr[t].pc = "idle"
    /\ ops < MaxPoolOps
    /\ \E d \in Daos :
         thr' = [thr EXCEPT ![t] =
                   [PoolThread EXCEPT !.op = "store_operation", !.pc = "check",
                                      !.dao = d,
                                      !.after_shutdown = pool[d].shutdown]]
    /\ ops' = ops + 1
    /\ UNCHANGED <<lob_applications, error_events, lob_app_id_seq, event_id_seq,
                   now, pool>>

\* close_connection_pool() is called.
close_connection_pool(t) ==
    /\ thr[t].pc = "idle"
    /\ ops < MaxPoolOps
    /\ \E d \in Daos :
         thr' = [thr EXCEPT ![t] =
                   [PoolThread EXCEPT !.op = "close_connection_pool",
                                      !.pc = "close_check", !.dao = d]]
    /\ ops' = ops + 1
    /\ UNCHANGED <<lob_applications, error_events, lob_app_id_seq, event_id_seq,
                   now, pool>>

\* _get_connection_pool: `if self._connection_pool is None:` without the lock.
get_connection_pool_check(t) ==
    LET r == thr[t]
        p == pool[r.dao]
    IN
    /\ r.pc = "check"
    /\ PoolStep(t, IF p.connection_pool = 0
                   THEN [r EXCEPT !.pc = "lock", !.saw_none = TRUE]
                   ELSE [r EXCEPT !.pc = "return"],
                p)

\* `with self._pool_lock:` of either method: waits until the lock is free.
pool_lock_acquire(t) ==
    LET r == thr[t]
        p == pool[r.dao]
    IN
    /\ r.pc \in {"lock", "close_lock"}
    /\ p.lock = "free"
    /\ PoolStep(t, [r EXCEPT !.pc = IF r.pc = "lock" THEN "create" ELSE "closeall"],
                [p EXCEPT !.lock = t])

\* The second check with the pool constructed whatever the field holds.
second_check_skipped(connection_pool) == TRUE

\* _get_connection_pool: the second `if self._connection_pool is None:`,
\* under the lock.
second_check(connection_pool) == connection_pool = 0

\* get_connection_pool_create with the lock taken by acquire() and released
\* by release() after the constructor call, outside any `finally`: a failing
\* constructor leaves the lock held.
get_connection_pool_create_lock_kept(t) ==
    LET r == thr[t]
        p == pool[r.dao]
    IN
    /\ r.pc = "create"
    /\ IF second_check(p.connection_pool)
       THEN \E driver_ok \in BOOLEAN :
              IF driver_ok
              THEN PoolStep(t, [r EXCEPT !.pc = "unlock"],
                            [p EXCEPT !.objects = Append(p.objects, PoolObject),
                                      !.connection_pool = Len(p.objects) + 1])
              ELSE PoolStep(t, [r EXCEPT !.pc = "idle", !.exc = "psycopg2.Error"], p)
       ELSE PoolStep(t, [r EXCEPT !.pc = "unlock"], p)

\* _get_connection_pool, under the lock: the second check and the call of
\* ThreadedConnectionPool(...), which opens the first connections and raises
\* psycopg2.Error when the driver cannot; the exception leaves the `with`
\* (the lock is released) and the store operation.
get_connection_pool_create(t) ==
    LET r == thr[t]
        p == pool[r.dao]
    IN
    /\ r.pc = "create"
    /\ IF second_check(p.connection_pool)
       THEN \E driver_ok \in BOOLEAN :
              IF driver_ok
              THEN PoolStep(t, [r EXCEPT !.pc = "unlock"],
                            [p EXCEPT !.objects = Append(p.objects, PoolObject),
                                      !.connection_pool = Len(p.objects) + 1])
              ELSE PoolStep(t, [r EXCEPT !.pc = "idle", !.exc = "psycopg2.Error"],
                            [p EXCEPT !.lock = "free"])
       ELSE PoolStep(t, [r EXCEPT !.pc = "unlock"], p)

\* The end of `with self._pool_lock:` of either method.
pool_lock_release(t) ==
    LET r == thr[t]
        p == pool[r.dao]
    IN
    /\ r.pc \in {"unlock", "close_unlock"}
    /\ PoolStep(t, [r EXCEPT !.pc = IF r.pc = "unlock" THEN "return" ELSE "idle"],
                [p EXCEPT !.lock = "free",
                          !.shutdown = p.shutdown \/ r.pc = "close_unlock"])

\* _get_connection_pool: `return self._connection_pool`, a read of the field
\* without the lock, assigned to `pool` in _get_db_connection.
get_connection_pool_return(t) ==
    LET r == thr[t]
        p == pool[r.dao]
    IN
    /\ r.pc = "return"
    /\ PoolStep(t, [r EXCEPT !.pc = "getconn", !.pool = p.connection_pool], p)

\* _get_db_connection: `connection = pool.getconn()`.
\*   pool is None           AttributeError (not a psycopg2.Error)
\*   closeall() was called  PoolError "connection pool is closed"
\*   every connection out   PoolError "connection pool exhausted"
\*   a new connection       psycopg2.Error when the driver cannot connect
\* Nothing was taken, so the `finally` has nothing to put back.
getconn(t) ==
    LET r == thr[t]
        p == pool[r.dao]
        failed(e) == PoolStep(t, [r EXCEPT !.pc = "idle", !.exc = e], p)
    IN
    /\ r.pc = "getconn"
    /\ IF r.pool = 0 THEN failed("AttributeError")
       ELSE IF p.objects[r.pool].closed THEN failed("PoolError:closed")
       ELSE IF p.objects[r.pool].used >= pool_max_connections
       THEN failed("PoolError:exhausted")
       ELSE \E driver_ok \in BOOLEAN :
              IF driver_ok
              THEN PoolStep(t, [r EXCEPT !.pc = "putconn", !.connection = r.pool],
                            [p EXCEPT !.objects[r.pool].used = @ + 1])
              ELSE failed("psycopg2.Error")

\* _get_db_connection, `finally`: `pool.putconn(connection)` on the pool
\* object the connection came from; putconn raises PoolError on a pool that
\* closeall() has closed.
putconn(t) ==
    LET r == thr[t]
        p == pool[r.dao]
    IN
    /\ r.pc = "putconn"
    /\ IF p.objects[r.connection].closed
       THEN PoolStep(t, [r EXCEPT !.pc = "idle", !.connection = 0,
                                  !.exc = "PoolError:closed"], p)
       ELSE PoolStep(t, [r EXCEPT !.pc = "idle", !.connection = 0],
                     [p EXCEPT !.objects[r.connection].used = @ - 1])

\* close_connection_pool: `if self._connection_pool:` without the lock.
close_check(t) ==
    LET r == thr[t]
        p == pool[r.dao]
    IN
    /\ r.pc = "close_check"
    /\ PoolStep(t, [r EXCEPT !.pc = IF p.connection_pool # 0 THEN "close_lock"
                                    ELSE "idle"], p)

\* close_connection_pool, under the lock: the second check and
\* `self._connection_pool.closeall()`.
close_closeall(t) ==
    LET r == thr[t]
        p == pool[r.dao]
    IN
    /\ r.pc = "closeall"
    /\ IF p.connection_pool # 0
       THEN PoolStep(t, [r EXCEPT !.pc = "clear"],
                     [p EXCEPT !.objects[p.connection_pool].closed = TRUE])
       ELSE PoolStep(t, [r EXCEPT !.pc = "idle"], [p EXCEPT !.lock = "free"])

\* close_connection_pool, under the lock: `self._connection_pool = None`.
close_clear(t) ==
    LET r == thr[t]
        p == pool[r.dao]
    IN
    /\ r.pc = "clear"
    /\ PoolStep(t, [r EXCEPT !.pc = "close_unlock"],
                [p EXCEPT !.connection_pool = 0])

NextPool ==
    \E t \in Threads :
        \/ store_operation(t)
        \/ close_connection_pool(t)
        \/ get_connection_pool_check(t)
        \/ pool_lock_acquire(t)
        \/ get_connection_pool_create(t)
        \/ pool_lock_release(t)
        \/ get_connection_pool_return(t)
        \/ getconn(t)
        \/ putconn(t)
        \/ close_check(t)
        \/ close_closeall(t)
        \/ close_clear(t)

SpecPool == InitPool /\ [][NextPool]_vars

\* C11: while no pool of a DAO has been closed, the DAO has constructed at
\* most one pool object, however many threads found the field empty at the
\* same time, and every thread to which _get_connection_pool has returned
\* holds that one object.
C11_LazyInitOnce ==
    \A d \in Daos :
        (\A i \in DOMAIN pool[d].objects : ~pool[d].objects[i].closed)
        => /\ Len(pool[d].objects) <= 1
           /\ \A t \in Threads :
                (thr[t].dao = d /\ thr[t].pool # -1)
                => (thr[t].pool = 1 /\ pool[d].connection_pool = 1)

C11_Witness ==
    \E d \in Daos, t \in Threads, u \in Threads :
        /\ t # u
        /\ thr[t].dao = d /\ thr[u].dao = d
        /\ thr[t].saw_none /\ thr[u].saw_none
        /\ thr[t].pool = 1 /\ thr[u].pool = 1
        /\ Len(pool[d].objects) = 1

\* C12: an acquire that finds every connection of the pool borrowed waits
\* for a release: no store operation ends because its pool was exhausted (an
\* acquire fails only when the driver cannot create a connection).
C12_AcquireWaits ==
    \A t \in Threads :
        (thr[t].op = "store_operation" /\ thr[t].pc = "idle")
        => thr[t].exc # "PoolError:exhausted"

\* C13: a store operation that starts after a shutdown of its DAO's pool has
\* returned is handed no connection, and its acquire fails.
C13_NoAcquireAfterShutdown ==
    \A t \in Threads :
        (thr[t].op = "store_operation" /\ thr[t].after_shutdown)
        => /\ thr[t].connection = 0
           /\ thr[t].pc = "idle" => thr[t].exc # "none"

----------------------------------------------------------------------------
\* The store and service operations on event rows, called one by one.
\*
\* Spec runs the request handlers; the operations below have no handler in
\* web_main (update_error_resolution and the other service updates are called
\* by the resolution job, update_event_state only from approve_error_event,
\* which never gets that far). SpecDao calls them directly on a seeded
\* error_events table, each through the four steps of a DAO method.

\* Target states a caller passes to update_event_state: event_state is a
\* plain str, checked nowhere.
CallerStates == {"PROCESSING", "CANCELLED"}

\* The methods class ErrorEventDao defines.
ErrorEventDao_methods ==
    {"__init__", "_get_connection_pool", "_get_db_connection", "_get_db_cursor",
     "save_error_event", "find_by_id", "find_by_lob", "update_event_state",
     "update_error_resolution", "close_connection_pool"}

InitDao ==
    /\ \E st \in SeedEvents :
         /\ error_events = [i \in 1 .. Len(st) |-> EventRow(1, st[i], 0)]
         /\ event_id_seq = Len(st)
    /\ lob_applications = Extend(EmptyTable, 1, LobRow(1, SeedKey, FALSE))
    /\ lob_app_id_seq = 1
    /\ now = 0
    /\ pool = [d \in Daos |-> [created |-> FALSE, used |-> 0]]
    /\ thr = [t \in Threads |-> IdleThread]
    /\ ops = 0

\* ErrorEventDao.update_event_state(event_id, new_state), called directly
call_update_event_state(t) ==
    /\ thr[t].pc = "idle"
    /\ ops < MaxOps
    /\ \E id \in EventIds, s \in CallerStates :
         thr' = [thr EXCEPT ![t] =
                   [FirstCall("update_event_state", "update_event_state",
                              "ErrorEventDao")
                      EXCEPT !.event_id = id, !.new_state = s]]
    /\ ops' = ops + 1
    /\ UNCHANGED <<lob_applications, error_events, lob_app_id_seq, event_id_seq,
                   now, pool>>

\* ErrorEventService.get_error_event_by_id -> ErrorEventDao.find_by_id
get_error_event_by_id(t) ==
    /\ thr[t].pc = "idle"
    /\ ops < MaxOps
    /\ \E id \in EventIds :
         thr' = [thr EXCEPT ![t] =
                   [FirstCall("get_error_event_by_id", "find_by_id", "ErrorEventDao")
                      EXCEPT !.event_id = id]]
    /\ ops' = ops + 1
    /\ UNCHANGED <<lob_applications, error_events, lob_app_id_seq, event_id_seq,
                   now, pool>>

\* web_main.get_error_events with a lob -> ErrorEventDao.find_by_lob
get_error_events(t) ==
    /\ thr[t].pc = "idle"
    /\ ops < MaxOps
    /\ \E l \in Lobs :
         thr' = [thr EXCEPT ![t] =
                   [FirstCall("get_error_events", "find_by_lob", "ErrorEventDao")
                      EXCEPT !.key = <<[lob |-> l]>>]]
    /\ ops' = ops + 1
    /\ UNCHANGED <<lob_applications, error_events, lob_app_id_seq, event_id_seq,
                   now, pool>>

\* cancel_error_events_rows with the row of the event deleted.
cancel_error_events_deleting(rows, event_id) ==
    [i \in DOMAIN rows \ {event_id} |-> rows[i]]

\* web_main.cancel_error_events: the event rows after the handler. It logs
\* and builds a message; it calls no service and no DAO.
cancel_error_events_rows(rows, event_id) == rows

\* web_main.cancel_error_events (DELETE /error-events/{event_id})
cancel_error_events(t) ==
    /\ thr[t].pc = "idle"
    /\ ops < MaxOps
    /\ \E id \in EventIds :
         /\ thr' = [thr EXCEPT ![t] =
                      Finish([IdleThread EXCEPT !.op = "cancel_error_events",
                                                !.event_id = id],
                             200, "cancelled", "none")]
         /\ error_events' = cancel_error_events_rows(error_events, id)
    /\ ops' = ops + 1
    /\ UNCHANGED <<lob_applications, lob_app_id_seq, event_id_seq, now, pool>>

\* A service update that forwards to self.error_event_dao.<method>(...) inside
\* `try: ... except Exception: raise`. The attribute lookup on the DAO object
\* comes first: for a method the class does not define it raises
\* AttributeError, and no DAO call is made.
service_update(t, method) ==
    /\ thr[t].pc = "idle"
    /\ ops < MaxOps
    /\ \E id \in EventIds :
         thr' = [thr EXCEPT ![t] =
                   IF method \in ErrorEventDao_methods
                   THEN [FirstCall(method, method, "ErrorEventDao")
                           EXCEPT !.event_id = id]
                   ELSE Finish([IdleThread EXCEPT !.op = method, !.event_id = id],
                               0, "raised", "AttributeError")]
    /\ ops' = ops + 1
    /\ UNCHANGED <<lob_applications, error_events, lob_app_id_seq, event_id_seq,
                   now, pool>>

\* ErrorEventService.update_user_feedback
update_user_feedback(t) == service_update(t, "update_user_feedback")

\* ErrorEventService.update_affected_jira
update_affected_jira(t) == service_update(t, "update_affected_jira")

NextDao ==
    \E t \in Threads :
        \/ call_update_event_state(t)
        \/ update_error_resolution(t)
        \/ get_error_event_by_id(t)
        \/ get_error_events(t)
        \/ cancel_error_events(t)
        \/ update_user_feedback(t)
        \/ update_affected_jira(t)
        \/ get_db_connection(t)
        \/ cursor_body(t)
        \/ get_db_cursor_exit(t)
        \/ get_db_connection_exit(t)

SpecDao == InitDao /\ [][NextDao]_vars

\* The five columns update_error_resolution writes, as thread t's call set them.
ResolutionWritten(old, new, t) ==
    /\ new.resolution = "fix"
    /\ new.confidence = "0.9"
    /\ new.pull_request_url = "pr"
    /\ new.event_state = thr[t].new_state
    /\ new.updated_ts > old.updated_ts

\* C14: a step of update_error_resolution changes the event rows only by
\* committing, and then the five columns of its row change together; a call
\* that ends with an exception has committed nothing.
C14_ResolutionAtomic ==
    /\ [](\A t \in Threads :
            (Finished(t, "update_error_resolution") /\ thr[t].raised # "none")
            => thr[t].txn # "committed")
    /\ [][\A t \in Threads :
            (thr'[t] # thr[t] /\ thr[t].op = "update_error_resolution"
               /\ error_events' # error_events)
            => /\ thr'[t].exc = "none"
               /\ thr'[t].txn = "committed"
               /\ \A i \in DOMAIN error_events :
                    IF i = thr[t].event_id
                    THEN ResolutionWritten(error_events[i], error_events'[i], t)
                    ELSE error_events'[i] = error_events[i]]_vars

C14_Witness ==
    \E t \in Threads :
        /\ Finished(t, "update_error_resolution")
        /\ thr[t].raised = "psycopg2.Error"
        /\ thr[t].txn = "rolledback"
        /\ thr[t].result # <<>>
        /\ error_events[thr[t].event_id] = thr[t].result[1]

\* C15: update_event_state and update_error_resolution called with an id that
\* no row has (and no driver error) raise the DAO's not-found ValueError, and
\* no step of such a call changes an event row or commits.
C15_UpdateMissingId ==
    /\ [](\A t \in Threads :
            (/\ thr[t].pc = "idle"
             /\ thr[t].op \in {"update_event_state", "update_error_resolution"}
             /\ thr[t].event_id \notin DOMAIN error_events
             /\ StoreOk(t))
            => /\ thr[t].raised = "ValueError:no_row"
               /\ thr[t].txn # "committed")
    /\ [][\A t \in Threads :
            (/\ thr'[t] # thr[t]
             /\ thr[t].op \in {"update_event_state", "update_error_resolution"}
             /\ thr[t].event_id \notin DOMAIN error_events)
            => error_events' = error_events]_vars

C15_Witness ==
    \E t \in Threads :
        /\ Finished(t, "update_event_state")
        /\ thr[t].event_id \notin DOMAIN error_events
        /\ thr[t].raised = "ValueError:no_row"
        /\ error_events # EmptyTable

\* C16: update_user_feedback and update_affected_jira succeed on the id of an
\* existing event, and fail with the DAO's not-found ValueError on an id that
\* no row has.
C16_FeedbackAndJiraUpdates ==
    \A t \in Threads :
        (thr[t].pc = "idle" /\ StoreOk(t)
           /\ thr[t].op \in {"update_user_feedback", "update_affected_jira"})
        => IF thr[t].event_id \in DOMAIN error_events
           THEN thr[t].raised = "none"
           ELSE thr[t].raised = "ValueError:no_row"

\* C17: with no driver error, find_by_id returns the stored event for the id
\* of an existing row, and None, without an exception, for an id no row has.
C17_FindByIdRoundTrip ==
    \A t \in Threads :
        (Finished(t, "get_error_event_by_id") /\ StoreOk(t))
        => /\ thr[t].raised = "none"
           /\ thr[t].ret = thr[t].lookup
           /\ Found(t) <=> thr[t].event_id \in DOMAIN error_events

\* C18: an ingestion whose save of the event fails answers 500 with no event
\* id and no queue signal, and has committed nothing; a step of an ingestion
\* changes the event rows only by committing its insert, and the queue signal
\* is given only by an ingestion whose insert is committed.
C18_StoreFailureAbortsIngestion ==
    /\ [](\A t \in Threads :
            (Finished(t, "capture_error_event") /\ thr[t].call = "save_error_event"
               /\ thr[t].raised # "none")
            => /\ thr[t].status = 500
               /\ thr[t].out_event_id = 0
               /\ ~thr[t].queued
               /\ thr[t].txn # "committed")
    /\ [](\A t \in Threads :
            (thr[t].op = "capture_error_event" /\ thr[t].queued)
            => /\ thr[t].txn = "committed"
               /\ thr[t].out_event_id \in DOMAIN error_events)
    /\ [][\A t \in Threads :
            (thr'[t] # thr[t] /\ thr[t].op = "capture_error_event"
               /\ error_events' # error_events)
            => (thr'[t].exc = "none" /\ thr'[t].txn = "committed")]_vars

C18_Witness ==
    \E t \in Threads :
        /\ Finished(t, "capture_error_event")
        /\ thr[t].call = "save_error_event"
        /\ thr[t].lookup[1].auto_resolve
        /\ thr[t].store_failed
        /\ thr[t].raised = "psycopg2.Error"
        /\ thr[t].status = 500

\* C19: a request that has committed PROCESSING as the state of an event row
\* has submitted the event to the processing queue by the time it ends.
C19_ProcessingIsSubmitted ==
    \A t \in Threads :
        (/\ thr[t].pc = "idle"
         /\ thr[t].call \in {"save_error_event", "update_event_state",
                             "update_error_resolution"}
         /\ thr[t].txn = "committed"
         /\ thr[t].new_state = "PROCESSING")
        => thr[t].submitted

\* C20: the state of every stored event is one of PENDING_APPROVAL,
\* PROCESSING, APPROVED, RESOLVED, REJECTED.
C20_StateInEnum ==
    \A i \in DOMAIN error_events :
        error_events[i].event_state \in
            {"PENDING_APPROVAL", "PROCESSING", "APPROVED", "RESOLVED", "REJECTED"}

----------------------------------------------------------------------------
----------------------------------------------------------------------------
\* The configuration lookups on tables of several configurations.
\*
\* SpecConfig starts from a lob_applications table of up to two rows, stored
\* in any order under any two distinct natural keys over two business units,
\* two application names and two environments, and runs the two lookups of
\* LobApplicationDao and the onboarding.

\* Requests started in one behaviour of SpecConfig.
MaxConfigOps == 1

ConfigApps == {"billing", "checkout"}
ConfigEnvs == {"prod", "uat"}
ConfigKeys == [lob : Lobs, application_name : ConfigApps, environment : ConfigEnvs]

\* The stored configurations, by their keys in id order.
SeedConfigs ==
    {<<>>} \cup {<<k>> : k \in ConfigKeys}
           \cup {q \in ConfigKeys \X ConfigKeys : q[1] # q[2]}

InitConfig ==
    /\ \E q \in SeedConfigs :
         /\ lob_applications = [i \in DOMAIN q |-> LobRow(i, q[i], TRUE)]
         /\ lob_app_id_seq = Len(q)
    /\ error_events = EmptyTable
    /\ event_id_seq = 0
    /\ now = 0
    /\ pool = [d \in Daos |-> [created |-> FALSE, used |-> 0]]
    /\ thr = [t \in Threads |-> IdleThread]
    /\ ops = 0

\* web_main.get_lob_applications_by_lob -> LobApplicationDao.find_by_lob
get_lob_applications_by_lob(t) ==
    /\ thr[t].pc = "idle"
    /\ ops < MaxConfigOps
    /\ \E l \in Lobs :
         thr' = [thr EXCEPT ![t] =
                   [FirstCall("get_lob_applications_by_lob", "find_by_lob",
                              "LobApplicationDao")
                      EXCEPT !.key = <<[lob |-> l]>>]]
    /\ ops' = ops + 1
    /\ UNCHANGED <<lob_applications, error_events, lob_app_id_seq, event_id_seq,
                   now, pool>>

\* LobApplicationsService.get_lob_application_by_lob_app_and_env
\*   -> LobApplicationDao.find_by_lob_application_and_environment
get_lob_application_by_lob_app_and_env(t) ==
    /\ thr[t].pc = "idle"
    /\ ops < MaxConfigOps
    /\ \E k \in ConfigKeys :
         thr' = [thr EXCEPT ![t] =
                   [FirstCall("get_lob_application_by_lob_app_and_env",
                              "find_by_lob_application_and_environment",
                              "LobApplicationDao")
                      EXCEPT !.key = <<k>>]]
    /\ ops' = ops + 1
    /\ UNCHANGED <<lob_applications, error_events, lob_app_id_seq, event_id_seq,
                   now, pool>>

\* web_main.onboard_lob_applications, within the bound of SpecConfig
onboard_configuration(t) ==
    /\ ops < MaxConfigOps
    /\ \E k \in Keys :
         /\ thr[t].pc = "idle"
         /\ thr' = [thr EXCEPT ![t] =
                      [FirstCall("onboard_lob_applications", "save",
                                 "LobApplicationDao")
                         EXCEPT !.key = <<k>>, !.auto_resolve = TRUE]]
    /\ ops' = ops + 1
    /\ UNCHANGED <<lob_applications, error_events, lob_app_id_seq, event_id_seq,
                   now, pool>>

NextConfig ==
    \E t \in Threads :
        \/ get_lob_applications_by_lob(t)
        \/ get_lob_application_by_lob_app_and_env(t)
        \/ onboard_configuration(t)
        \/ get_db_connection(t)
        \/ cursor_body(t)
        \/ get_db_cursor_exit(t)
        \/ get_db_connection_exit(t)

SpecConfig == InitConfig /\ [][NextConfig]_vars

\* Thread t executes the statement of DAO method `call` in this step.
Executes(t, call) ==
    /\ thr[t].pc = "execute"
    /\ thr[t].call = call
    /\ thr'[t].pc = "exit"
    /\ thr'[t].exc = "none"

SameKey(row, k) ==
    /\ row.lob = k.lob
    /\ row.application_name = k.application_name
    /\ row.environment = k.environment

\* C23: the lookup by natural key fetches a row exactly when a stored
\* configuration has that lob, application name and environment, the row it
\* fetches is that stored configuration, and with no driver error the call
\* returns what it fetched without an exception.
C23_FindByKeyExact ==
    /\ [][\A t \in Threads :
            Executes(t, "find_by_lob_application_and_environment")
            => LET k == thr[t].key[1]
                   res == thr'[t].ret
               IN  /\ res # <<>>
                      <=> \E i \in DOMAIN lob_applications :
                            SameKey(lob_applications[i], k)
                   /\ res # <<>>
                      => /\ SameKey(res[1], k)
                         /\ res[1].lob_app_id \in DOMAIN lob_applications
                         /\ lob_applications[res[1].lob_app_id] = res[1]]_vars
    /\ [](\A t \in Threads :
            (Finished(t, "get_lob_application_by_lob_app_and_env") /\ StoreOk(t))
            => /\ thr[t].raised = "none"
               /\ thr[t].ret = thr[t].lookup)

C23_Witness ==
    \E t \in Threads :
        /\ Finished(t, "get_lob_application_by_lob_app_and_env")
        /\ thr[t].raised = "none"
        /\ thr[t].ret = <<>>
        /\ \E i \in DOMAIN lob_applications :
             /\ lob_applications[i].lob = thr[t].key[1].lob
             /\ lob_applications[i].application_name = thr[t].key[1].application_name
             /\ lob_applications[i].environment # thr[t].key[1].environment

\* C25: find_by_lob of the configurations fetches exactly the stored rows of
\* the business unit, each once, in non-decreasing order of application name
\* and, within one application name, of environment; with no driver error the
\* call returns them without an exception.
C25_ConfigsByLobOrdered ==
    /\ [][\A t \in Threads :
            (Executes(t, "find_by_lob") /\ thr[t].dao = "LobApplicationDao")
            => LET res == thr'[t].ret
                   ids == {i \in DOMAIN lob_applications :
                             lob_applications[i].lob = thr[t].key[1].lob}
               IN  /\ Len(res) = Cardinality(ids)
                   /\ {res[n].lob_app_id : n \in DOMAIN res} = ids
                   /\ \A n \in DOMAIN res :
                        lob_applications[res[n].lob_app_id] = res[n]
                   /\ \A n \in DOMAIN res, m \in DOMAIN res :
                        n < m
                        => \/ TextRank(res[n].application_name)
                                < TextRank(res[m].application_name)
                           \/ /\ res[n].application_name = res[m].application_name
                              /\ TextRank(res[n].environment)
                                   <= TextRank(res[m].environment)]_vars
    /\ [](\A t \in Threads :
            (Finished(t, "get_lob_applications_by_lob") /\ StoreOk(t))
            => thr[t].raised = "none")

C25_Witness ==
    \E t \in Threads :
        /\ Finished(t, "get_lob_applications_by_lob")
        /\ thr[t].raised = "none"
        /\ Len(thr[t].ret) = 2
        /\ thr[t].ret[1].lob_app_id > thr[t].ret[2].lob_app_id

\* C24: with no driver error, the listing of the events of a business unit
\* returns the fetched events of that unit, all of them, without an
\* exception, most recently created first.
C24_EventsByLob ==
    \A t \in Threads :
        (Finished(t, "get_error_events") /\ StoreOk(t))
        => /\ thr[t].raised = "none"
           /\ thr[t].ret = thr[t].result
           /\ \A n \in DOMAIN thr[t].ret, m \in DOMAIN thr[t].ret :
                n < m => thr[t].ret[n].created_ts >= thr[t].ret[m].created_ts

C28_OneSharedPool ==
    pool["LobApplicationDao"].used + pool["ErrorEventDao"].used
        <= pool_max_connections

\* The DAO call that thread t's request is in was made by one of
\* approve_error_event, update_error_resolution, create_error_event.
InServiceCall(t) ==
    \/ thr[t].op \in {"approve_error_event", "update_error_resolution"}
    \/ thr[t].op = "capture_error_event" /\ thr[t].call = "save_error_event"

\* C29: when a DAO call made by approve_error_event, update_error_resolution
\* or create_error_event ends with an exception (at getconn, or when the
\* connection scope is left), the request ends in that step with that same
\* exception raised to the caller of the service, with no further DAO call
\* and no change of the tables.
C29_NoMasking ==
    [][\A t \in Threads :
         (/\ thr'[t] # thr[t]
          /\ InServiceCall(t)
          /\ \/ thr[t].pc = "release" /\ thr[t].exc # "none"
             \/ thr[t].pc = "acquire" /\ thr'[t].pc # "execute")
         => /\ thr'[t].pc = "idle"
            /\ thr'[t].exc # "none"
            /\ thr[t].pc = "release" => thr'[t].exc = thr[t].exc
            /\ thr'[t].raised = thr'[t].exc
            /\ thr'[t].getconn_calls = thr[t].getconn_calls
            /\ error_events' = error_events
            /\ lob_applications' = lob_applications]_vars

C29_Witness ==
    \E t \in Threads :
        /\ Finished(t, "approve_error_event")
        /\ thr[t].raised = "psycopg2.Error"
        /\ thr[t].txn = "rolledback"
        /\ Found(t)

\* C30: update_error_resolution on an existing event, with no driver error,
\* succeeds and commits whatever the state of the row and whatever the target
\* state, and its commit sets resolution, confidence, pull-request URL and the
\* target state of the row in that one step.
C30_ResolutionStatePermissive ==
    /\ [](\A t \in Threads :
            (Finished(t, "update_error_resolution") /\ StoreOk(t)
               /\ thr[t].result # <<>>)
            => /\ thr[t].raised = "none"
               /\ thr[t].txn = "committed")
    /\ [][\A t \in Threads :
            (/\ thr[t].op = "update_error_resolution"
             /\ thr[t].pc = "exit"
             /\ thr'[t].pc = "release"
             /\ thr'[t].txn = "committed")
            => /\ thr[t].event_id \in DOMAIN error_events
               /\ ResolutionWritten(error_events[thr[t].event_id],
                                    error_events'[thr[t].event_id], t)]_vars

C30_Witness ==
    \E t \in Threads :
        /\ Finished(t, "update_error_resolution")
        /\ thr[t].raised = "none"
        /\ thr[t].result # <<>>
        /\ thr[t].result[1].event_state = "PENDING_APPROVAL"
        /\ thr[t].new_state = "RESOLVED"
        /\ error_events[thr[t].event_id].event_state = "RESOLVED"
        /\ error_events[thr[t].event_id].resolution = "fix"

----------------------------------------------------------------------------
\* Readers and writers of event rows on a pool of the default size.
\*
\* With pool_max_connections = 1 the ErrorEventDao pool lets one transaction
\* run at a time. SpecTxn runs the reads (find_by_id, find_by_lob) and the
\* updates (update_event_state, update_error_resolution) on a pool of the
\* size the DAO takes when DB_POOL_MAX is not set, so that a read runs while
\* an update of the same row is pending.

\* int(os.getenv('DB_POOL_MAX', '10'))
DB_POOL_MAX_default == 10

\* _get_db_connection on a pool of the default size.
get_db_connection_default_pool(t) == acquire_connection(t, DB_POOL_MAX_default)

NextTxn ==
    \E t \in Threads :
        \/ call_update_event_state(t)
        \/ update_error_resolution(t)
        \/ get_error_event_by_id(t)
        \/ get_error_events(t)
        \/ get_db_connection_default_pool(t)
        \/ cursor_body(t)
        \/ get_db_cursor_exit(t)
        \/ get_db_connection_exit(t)

SpecTxn == InitDao /\ [][NextTxn]_vars

\* The three resolution columns of a row are all unset or all set.
ResolutionWhole(row) ==
    \/ row.resolution = "NULL" /\ row.confidence = "NULL"
         /\ row.pull_request_url = "NULL"
    \/ row.resolution # "NULL" /\ row.confidence # "NULL"
         /\ row.pull_request_url # "NULL"

\* Thread t runs the statement of a read of event rows in this step.
Reads(t) ==
    /\ thr[t].pc = "execute"
    /\ thr'[t].pc = "exit"
    /\ thr[t].call \in {"find_by_id", "find_by_lob"}

\* C31: the rows a reader can see are the committed ones. A committed row
\* changes its state only together with its updated_ts, and has its resolution
\* columns all unset or all set; the rows a find_by_id or find_by_lob fetches
\* are committed rows, whatever writes other transactions have pending.
C31_NoPartialWrite ==
    /\ [](\A i \in DOMAIN error_events : ResolutionWhole(error_events[i]))
    /\ [][/\ DOMAIN error_events' = DOMAIN error_events
          /\ \A i \in DOMAIN error_events :
               /\ error_events'[i].event_state # error_events[i].event_state
                  => error_events'[i].updated_ts > error_events[i].updated_ts
               /\ error_events'[i].resolution # error_events[i].resolution
                  => /\ error_events'[i].confidence # error_events[i].confidence
                     /\ error_events'[i].pull_request_url
                          # error_events[i].pull_request_url
                     /\ error_events'[i].updated_ts > error_events[i].updated_ts
          /\ \A t \in Threads :
               Reads(t)
               => \A n \in DOMAIN thr'[t].result :
                    /\ ResolutionWhole(thr'[t].result[n])
                    /\ \E i \in DOMAIN error_events :
                         thr'[t].result[n] = error_events[i]]_vars

\* A read fetched the committed row while another transaction holds a pending
\* write of that row with another state.
C31_Witness ==
    \E t \in Threads, u \in Threads :
        /\ t # u
        /\ thr[t].call \in {"find_by_id", "find_by_lob"}
        /\ thr[t].pc = "exit"
        /\ thr[t].result # <<>>
        /\ thr[u].write.table = "error_events"
        /\ thr[u].write.id \in DOMAIN error_events
        /\ thr[t].result[1] = error_events[thr[u].write.id]
        /\ thr[u].write.event_row[1].event_state # thr[t].result[1].event_state

----------------------------------------------------------------------------
\* Ingestion of requests whose body sets database fields.
\*
\* ErrorEvent is the request model of POST /error-events, so a body may give
\* event_id, lob_app_id and event_state; Spec leaves them at the defaults of
\* the model. SpecIngest draws them from the sets below.

\* event_state of a body: absent (the default NEW) or set by the sender.
BodyStates == {"NEW", "RESOLVED"}
\* event_id and lob_app_id of a body: absent (0) or an id of the sender's.
BodyIds == {0, 7}

\* web_main.capture_error_event with any body, up to the configuration lookup
capture_error_event_body(t) ==
    /\ thr[t].pc = "idle"
    /\ ops < MaxOps
    /\ \E k \in Keys, id \in BodyIds, cfg \in BodyIds, st \in BodyStates :
         LET e == [event_id |-> id, lob_app_id |-> cfg, event_state |-> st] IN
         thr' = [thr EXCEPT ![t] =
                   [FirstCall("capture_error_event",
                              "find_by_lob_application_and_environment",
                              "LobApplicationDao")
                      EXCEPT !.key = <<k>>, !.body = e, !.error_event = e]]
    /\ ops' = ops + 1
    /\ UNCHANGED <<lob_applications, error_events, lob_app_id_seq, event_id_seq,
                   now, pool>>

NextIngest ==
    \E t \in Threads :
        \/ capture_error_event_body(t)
        \/ get_db_connection(t)
        \/ cursor_body(t)
        \/ get_db_cursor_exit(t)
        \/ get_db_connection_exit(t)

SpecIngest == Init /\ [][NextIngest]_vars

\* C32: the event an ingestion hands to the store carries the state decided
\* from auto_resolve of the configuration its key resolved to, and that
\* configuration's id, whatever the request body gave for event_state,
\* lob_app_id and event_id; so do the INSERT it leaves pending and the answer,
\* whose event id is the store's; no stored event row is in state NEW, and no
\* step of an ingestion adds or changes an event row other than by such an
\* INSERT.
C32_IngestionIgnoresBodyFields ==
    /\ [](\A i \in DOMAIN error_events : error_events[i].event_state # "NEW")
    /\ [](\A t \in Threads :
            (thr[t].op = "capture_error_event" /\ thr[t].call = "save_error_event")
            => LET c == thr[t].lookup[1] IN
               /\ thr[t].error_event.event_state = initial_event_state(c)
               /\ thr[t].error_event.event_state \in {"PROCESSING", "PENDING_APPROVAL"}
               /\ thr[t].error_event.lob_app_id = c.lob_app_id
               /\ thr[t].write.table = "error_events"
                  => /\ thr[t].write.event_row[1].event_state = initial_event_state(c)
                     /\ thr[t].write.event_row[1].lob_app_id = c.lob_app_id
                     /\ thr[t].write.id = event_id_seq
               /\ thr[t].outcome = "created"
                  => /\ thr[t].out_event_state = initial_event_state(c)
                     /\ thr[t].out_event_id \in DOMAIN error_events)
    /\ [][\A t \in Threads :
            (thr'[t] # thr[t] /\ thr[t].op = "capture_error_event"
               /\ error_events' # error_events)
            => /\ thr[t].write.table = "error_events"
               /\ error_events' = Extend(error_events, thr[t].write.id,
                                         thr[t].write.event_row[1])
               /\ thr[t].write.id \notin DOMAIN error_events]_vars

\* An ingestion whose body set all three fields reached the store call with
\* the state and the configuration id of the resolved configuration.
C32_Witness ==
    \E t \in Threads :
        /\ thr[t].op = "capture_error_event"
        /\ thr[t].call = "save_error_event"
        /\ thr[t].pc = "exit"
        /\ thr[t].body.event_state = "RESOLVED"
        /\ thr[t].body.lob_app_id = 7
        /\ thr[t].body.event_id = 7
        /\ thr[t].error_event.event_state = "PENDING_APPROVAL"
        /\ thr[t].error_event.lob_app_id = 1

----------------------------------------------------------------------------
\* C33: of two approve calls on the same event that both found it in
\* PENDING_APPROVAL (with no store failure), not both succeed, and one that
\* does not succeed fails with the illegal-transition error.
C33_ConcurrentApproveOnce ==
    \A t \in Threads, u \in Threads :
        (/\ t # u
         /\ thr[t].op = "approve_error_event" /\ thr[u].op = "approve_error_event"
         /\ thr[t].event_id = thr[u].event_id
         /\ Found(t) /\ Found(u)
         /\ thr[t].lookup[1].event_state = "PENDING_APPROVAL"
         /\ thr[u].lookup[1].event_state = "PENDING_APPROVAL"
         /\ StoreOk(t) /\ StoreOk(u)
         /\ thr[t].pc = "idle")
        => /\ thr[u].pc = "idle" => ~(thr[t].raised = "none" /\ thr[u].raised = "none")
           /\ thr[t].raised # "none" => thr[t].raised = "ValueError:not_pending"

----------------------------------------------------------------------------
\* C34: _get_connection_pool never returns None: the `pool` of a store
\* operation is a pool object once it is assigned, also when a
\* close_connection_pool runs at the same time, and no store operation ends
\* with the AttributeError of None.getconn().
C34_PoolNeverNone ==
    \A t \in Threads :
        thr[t].op = "store_operation"
        => /\ thr[t].pool # 0
           /\ thr[t].exc # "AttributeError"

----------------------------------------------------------------------------
\* A step of the DAO method thread t is in.
DaoStep(t) ==
    \/ get_db_connection(t)
    \/ cursor_body(t)
    \/ get_db_cursor_exit(t)
    \/ get_db_connection_exit(t)

\* C35: a request holds at most one pooled connection at a time: it has none
\* when it goes to borrow one (the connection of its previous store call went
\* back first), and its borrows exceed its returns by at most one. No request
\* is stuck: a thread inside a request can take its next step, unless it waits
\* for a row another transaction has written, and then the thread holding
\* that write can take its own.
C35_OneConnectionPerHandler ==
    \A t \in Threads :
        /\ thr[t].getconn_calls - thr[t].putconn_calls \in {0, 1}
        /\ thr[t].pc = "acquire"
           => /\ ~thr[t].connection
              /\ thr[t].getconn_calls = thr[t].putconn_calls
        /\ thr[t].pc # "idle"
           => \/ ENABLED DaoStep(t)
              \/ /\ Blocked(t)
                 /\ \E u \in Threads \ {t} :
                      /\ thr[u].write.table # "none"
                      /\ ENABLED DaoStep(u)

\* An ingestion goes to borrow the connection for its INSERT after it has
\* returned the one of the configuration lookup.
C35_Witness ==
    \E t \in Threads :
        /\ thr[t].op = "capture_error_event"
        /\ thr[t].call = "save_error_event"
        /\ thr[t].pc = "acquire"
        /\ thr[t].getconn_calls = 1
        /\ thr[t].putconn_calls = 1

----------------------------------------------------------------------------
\* C36: a pool constructor that raises leaves the DAO as it was before the
\* attempt: the step releases the construction lock, leaves the field unset
\* and the store operation ends with the driver's error, holding nothing; the
\* lock is only ever held by a thread inside one of the two `with` blocks, so
\* a later store operation gets to the constructor again.
C36_ConstructionRetryable ==
    /\ [](\A d \in Daos :
            pool[d].lock # "free"
            => /\ thr[pool[d].lock].dao = d
               /\ thr[pool[d].lock].pc
                    \in {"create", "unlock", "closeall", "clear", "close_unlock"})
    /\ [](\A t \in Threads :
            (thr[t].pc = "create" /\ pool[thr[t].dao].connection_pool = 0)
            => ENABLED get_connection_pool_create(t))
    /\ [][\A t \in Threads :
            (thr[t].pc = "create" /\ thr'[t].exc = "psycopg2.Error")
            => /\ pool'[thr[t].dao].lock = "free"
               /\ pool'[thr[t].dao].connection_pool = 0
               /\ pool'[thr[t].dao].objects = pool[thr[t].dao].objects
               /\ thr'[t].pc = "idle"
               /\ thr'[t].pool = -1
               /\ thr'[t].connection = 0]_vars

\* A store operation failed in the constructor, and another one of the same
\* DAO then constructed the pool and borrowed from it.
C36_Witness ==
    \E t \in Threads, u \in Threads :
        /\ t # u
        /\ thr[t].op = "store_operation" /\ thr[t].pc = "idle"
        /\ thr[t].exc = "psycopg2.Error" /\ thr[t].pool = -1
        /\ thr[u].dao = thr[t].dao
        /\ thr[u].saw_none
        /\ thr[u].connection = 1
        /\ Len(pool[thr[t].dao].objects) = 1
        /\ pool[thr[t].dao].connection_pool = 1
        /\ ~pool[thr[t].dao].objects[1].closed

----------------------------------------------------------------------------
\* The schema runner: PostgresDDLRunner.run_all_scripts, statement by
\* statement, on a directory of script files.
\*
\* SpecDdl keeps the runner in thr (one record; the runner is single-threaded)
\* and leaves the other variables alone:
\*   thr.directory      the script files of the directory, in sorted order
\*   thr.connection     self.connection: "none", "open" or "closed"
\*   thr.connected      connect() returned True
\*   thr.script_files   what find_ddl_scripts returned; thr.searched: it ran
\*   thr.outcome[i]     what the loop did with file i: "skipped" (read gave
\*                      None), "executed" or "failed"
\*   thr.ret            the value returned: "none" while running, "True",
\*                      "False", or "raised" when an exception left the method

\* Script files in the directory.
MaxScripts == 2
\* Statements in one script file.
MaxStatements == 2

\* What cursor.execute does with a statement.
StatementOutcomes == {"ok", "psycopg2.Error"}

\* What open(...).read() does: the text, IOError, or UnicodeDecodeError.
ReadOutcomes == {"text", "IOError", "UnicodeDecodeError"}

\* A script file: how the read ends, whether its text is empty after strip(),
\* and the outcomes of the statements that split(';') finds in it (a text of
\* separators only has content and no statement).
ScriptFiles ==
    {f \in [read : ReadOutcomes, empty : BOOLEAN,
            statements : UNION {[1 .. n -> StatementOutcomes] :
                                  n \in 0 .. MaxStatements}] :
        /\ f.read # "text" => (f.empty /\ f.statements = <<>>)
        /\ f.empty => f.statements = <<>>}

Runner ==
    [pc |-> "connect", directory |-> <<>>, connection |-> "none",
     connected |-> FALSE, searched |-> FALSE, script_files |-> <<>>,
     i |-> 0, content |-> <<>>, success_count |-> 0, total_count |-> 0,
     outcome |-> <<>>, ret |-> "none"]

InitDdl ==
    /\ lob_applications = EmptyTable
    /\ error_events = EmptyTable
    /\ lob_app_id_seq = 0
    /\ event_id_seq = 0
    /\ now = 0
    /\ pool = <<>>
    /\ ops = 0
    /\ \E n \in 0 .. MaxScripts :
         \E d \in [1 .. n -> ScriptFiles] :
            thr = [Runner EXCEPT !.directory = d]

DdlStep(r) ==
    /\ thr' = r
    /\ UNCHANGED <<lob_applications, error_events, lob_app_id_seq, event_id_seq,
                   now, pool, ops>>

\* PostgresDDLRunner.read_script_file: the content (here: its statements), or
\* None (<<>>) for an IOError and for a file that is empty after strip(). Any
\* other exception of the read is not caught.
read_script_file(f) ==
    IF f.read = "IOError" THEN [exc |-> "none", content |-> <<>>]
    ELSE IF f.read = "UnicodeDecodeError"
    THEN [exc |-> "UnicodeDecodeError", content |-> <<>>]
    ELSE IF f.empty THEN [exc |-> "none", content |-> <<>>]
    ELSE [exc |-> "none", content |-> <<f.statements>>]

\* PostgresDDLRunner.execute_script, the loop over the statements: False at
\* the first statement that raises psycopg2.Error, True after the last one.
RECURSIVE execute_statements(_)
execute_statements(statements) ==
    IF statements = <<>> THEN TRUE
    ELSE IF Head(statements) # "ok" THEN FALSE
    ELSE execute_statements(Tail(statements))

\* The return value with a script that read_script_file skipped not counted
\* as missing.
run_all_scripts_result_ignoring_skipped(success_count, total_count, outcome) ==
    success_count = Cardinality({i \in DOMAIN outcome : outcome[i] # "skipped"})

\* PostgresDDLRunner.run_all_scripts: `return success_count == total_count`.
run_all_scripts_result(success_count, total_count, outcome) ==
    success_count = total_count

\* run_all_scripts: `if not self.connect(): return False`. connect() sets
\* self.connection and then the isolation level; a psycopg2.Error of either
\* makes it return False.
ddl_connect ==
    /\ thr.pc = "connect"
    /\ \E result \in {"connected", "connect_failed", "set_isolation_level_failed"} :
         DdlStep(CASE result = "connected"
                        -> [thr EXCEPT !.pc = "find", !.connection = "open",
                                       !.connected = TRUE]
                   [] result = "connect_failed"
                        -> [thr EXCEPT !.pc = "done", !.ret = "False"]
                   [] OTHER
                        -> [thr EXCEPT !.pc = "done", !.ret = "False",
                                       !.connection = "open"])

\* run_all_scripts: find_ddl_scripts and `if not script_files: return True`.
ddl_find_scripts ==
    /\ thr.pc = "find"
    /\ DdlStep(IF thr.directory = <<>>
               THEN [thr EXCEPT !.pc = "finally", !.searched = TRUE, !.ret = "True"]
               ELSE [thr EXCEPT !.pc = "read", !.searched = TRUE,
                                !.script_files = thr.directory,
                                !.total_count = Len(thr.directory),
                                !.i = 1])

\* The loop goes on to the next file, or to the summary after the last one.
NextScript(r) ==
    IF r.i < Len(r.script_files)
    THEN [r EXCEPT !.pc = "read", !.i = r.i + 1, !.content = <<>>]
    ELSE [r EXCEPT !.pc = "summary", !.content = <<>>]

\* run_all_scripts, in the loop: read_script_file and `continue` on None.
ddl_read_script ==
    LET x == read_script_file(thr.script_files[thr.i]) IN
    /\ thr.pc = "read"
    /\ DdlStep(IF x.exc # "none"
               THEN [thr EXCEPT !.pc = "finally", !.ret = "raised"]
               ELSE IF x.content = <<>>
               THEN NextScript([thr EXCEPT !.outcome = Append(thr.outcome, "skipped")])
               ELSE [thr EXCEPT !.pc = "execute", !.content = x.content])

\* run_all_scripts, in the loop: execute_script and the count of successes.
\* connection.cursor() may raise psycopg2.Error, which execute_script turns
\* into False as well.
ddl_execute_script ==
    /\ thr.pc = "execute"
    /\ \E cursor_ok \in BOOLEAN :
         DdlStep(IF cursor_ok /\ execute_statements(thr.content[1])
                 THEN NextScript([thr EXCEPT !.success_count = thr.success_count + 1,
                                             !.outcome = Append(thr.outcome, "executed")])
                 ELSE NextScript([thr EXCEPT !.outcome = Append(thr.outcome, "failed")]))

\* run_all_scripts: the summary line and the return statement.
ddl_summary ==
    /\ thr.pc = "summary"
    /\ DdlStep([thr EXCEPT !.pc = "finally",
                           !.ret = IF run_all_scripts_result(thr.success_count,
                                                             thr.total_count,
                                                             thr.outcome)
                                   THEN "True" ELSE "False"])

\* run_all_scripts, `finally`: disconnect() closes self.connection.
ddl_disconnect ==
    /\ thr.pc = "finally"
    /\ DdlStep([thr EXCEPT !.pc = "done",
                           !.connection = IF thr.connection = "open" THEN "closed"
                                          ELSE thr.connection])

NextDdl ==
    \/ ddl_connect
    \/ ddl_find_scripts
    \/ ddl_read_script
    \/ ddl_execute_script
    \/ ddl_summary
    \/ ddl_disconnect

SpecDdl == InitDdl /\ [][NextDdl]_vars

\* File f of the directory can be executed without an error: it reads as
\* text with content, and each of its statements executes.
Executable(f) ==
    /\ f.read = "text"
    /\ ~f.empty
    /\ \A j \in DOMAIN f.statements : f.statements[j] = "ok"

\* C37: run_all_scripts returns True exactly when its search of the directory
\* ran and every file it found was executed successfully (none found
\* included): then every file is an executable one and was executed, and a
\* run that ends otherwise returned False or raised. Whenever connect()
\* returned True, the connection is open while the scripts run and closed
\* when the method is left, by return or by exception.
C37_RunAllScripts ==
    /\ thr.pc = "done"
       => /\ thr.ret \in {"True", "False", "raised"}
          /\ thr.ret = "True"
             <=> /\ thr.searched
                 /\ Len(thr.outcome) = Len(thr.directory)
                 /\ \A i \in DOMAIN thr.directory : thr.outcome[i] = "executed"
          /\ thr.ret = "True"
             => \A i \in DOMAIN thr.directory : Executable(thr.directory[i])
          /\ thr.connected => thr.connection = "closed"
    /\ \A i \in DOMAIN thr.outcome :
          thr.outcome[i] = "executed" => Executable(thr.directory[i])
    /\ thr.pc \in {"find", "read", "execute", "summary", "finally"}
       => /\ thr.connected
          /\ thr.connection = "open"

\* A run over two files, the first executed and the second skipped as empty,
\* returned False and closed the connection.
C37_Witness ==
    /\ thr.pc = "done"
    /\ thr.ret = "False"
    /\ thr.outcome = <<"executed", "skipped">>
    /\ thr.directory[2].read = "text"
    /\ thr.connection = "closed"

====
